---- MODULE Spec2Model ----
(***************************************************************************)
(* A model of the pyalex query builder (src/pyalex/api.py): the value      *)
(* encoder, the filter tree, the query serializer, the builder's chaining  *)
(* calls, get() and the Paginator, together with the part of the OpenAlex  *)
(* server protocol the paginator depends on.                               *)
(*                                                                         *)
(* Python values are tagged records:                                       *)
(*   [t |-> "none"]                      None                              *)
(*   [t |-> "int",  n |-> 3]             an int                            *)
(*   [t |-> "bool", b |-> TRUE]          a bool                            *)
(*   [t |-> "float", n |-> 3]            a float (only its type matters)   *)
(*   [t |-> "str",  s |-> <<"a","b">>]   a str, one character per element  *)
(*   [t |-> "wrap", tok |-> "!", value |-> v]   not_/gt_/lt_ object        *)
(*   [t |-> "list", xs |-> <<v1, v2>>]   a list                            *)
(*   [t |-> "dict", items |-> <<[k |-> "a", v |-> v1]>>, or |-> FALSE]     *)
(*        a dict in insertion order; or = TRUE for an or_ instance         *)
(* Rendered text (urls, query strings) is a TLA+ string.                   *)
(***************************************************************************)
EXTENDS Integers, Sequences, FiniteSets, TLC

VARIABLES
    params,   \* BaseOpenAlex.params of the builder
    hist,     \* the chaining calls made on the builder, in order
    quoted,   \* how many serializations re-encoded a stored value
    pag,      \* the Paginator objects created from the builder
    last,     \* the last operation and what it did
    total,    \* the size of the server's result set
    work      \* the Work entity the caller holds (None before a fetch)

vars == <<params, hist, quoted, pag, last, total, work>>

-----------------------------------------------------------------------------
(* Python values *)

None == [t |-> "none"]
IntV(n) == [t |-> "int", n |-> n]
BoolV(b) == [t |-> "bool", b |-> b]
FloatV(n) == [t |-> "float", n |-> n]
StrV(s) == [t |-> "str", s |-> s]
ListV(xs) == [t |-> "list", xs |-> xs]
DictV(items) == [t |-> "dict", items |-> items, or |-> FALSE]
KV(k, v) == [k |-> k, v |-> v]

\* or_ that builds a plain dict without the OR tag
or_untagged(d) == [t |-> "dict", items |-> d.items, or |-> FALSE]

\* class or_(dict): a dict carrying the OR tag
or_(d) == [t |-> "dict", items |-> d.items, or |-> TRUE]

\* class _LogicalExpression and its subclasses not_ / gt_ / lt_
_LogicalExpression(tok, v) == [t |-> "wrap", tok |-> tok, value |-> v]
not_(v) == _LogicalExpression("!", v)
gt_(v) == _LogicalExpression(">", v)
lt_(v) == _LogicalExpression("<", v)

\* isinstance(v, int): bool is a subclass of int in Python
IsInstanceInt(v) == v.t \in {"int", "bool"}

\* the numeric value of an int or a bool (True == 1, False == 0)
IntValue(v) == IF v.t = "bool" THEN (IF v.b THEN 1 ELSE 0) ELSE v.n

\* truthiness of a value, as in `if v:` / `a and b`
Truthy(v) ==
    CASE v.t = "none" -> FALSE
      [] v.t = "int" -> v.n # 0
      [] v.t = "float" -> v.n # 0
      [] v.t = "bool" -> v.b
      [] v.t = "str" -> v.s # <<>>
      [] v.t = "list" -> v.xs # <<>>
      [] v.t = "dict" -> v.items # <<>>
      [] OTHER -> TRUE

-----------------------------------------------------------------------------
(* dict access in insertion order *)

HasKey(d, k) == \E i \in 1..Len(d.items) : d.items[i].k = k

KeyIndex(d, k) == CHOOSE i \in 1..Len(d.items) : d.items[i].k = k

\* d[k]
GetItem(d, k) == d.items[KeyIndex(d, k)].v

\* d.get(k)
DictGet(d, k) == IF HasKey(d, k) THEN GetItem(d, k) ELSE None

\* d[k] = v: an existing key keeps its position, a new key is appended
SetItem(d, k, v) ==
    IF HasKey(d, k)
    THEN [d EXCEPT !.items[KeyIndex(d, k)] = KV(k, v)]
    ELSE [d EXCEPT !.items = Append(@, KV(k, v))]

-----------------------------------------------------------------------------
(* text *)

\* "".join(s) for a sequence of one-character strings
RECURSIVE Text(_)
Text(s) == IF s = <<>> THEN "" ELSE Head(s) \o Text(Tail(s))

\* the one-character-per-element form of the decimal digits of n >= 0
RECURSIVE Digits(_)
Digits(n) ==
    LET d == <<"0", "1", "2", "3", "4", "5", "6", "7", "8", "9">>[(n % 10) + 1]
    IN IF n < 10 THEN <<d>> ELSE Append(Digits(n \div 10), d)

\* str(n) for an int
DecStr(n) == IF n < 0 THEN "-" \o Text(Digits(0 - n)) ELSE Text(Digits(n))

\* urllib.parse.quote_plus on one character: letters, digits and _.-~ are
\* kept, a space becomes +, anything else is %XX
QuoteChar(c) ==
    CASE c = " " -> <<"+">>
      [] c = "+" -> <<"%", "2", "B">>
      [] c = "%" -> <<"%", "2", "5">>
      [] c = "&" -> <<"%", "2", "6">>
      [] c = "*" -> <<"%", "2", "A">>
      [] c = "!" -> <<"%", "2", "1">>
      [] c = "'" -> <<"%", "2", "7">>
      [] c = "," -> <<"%", "2", "C">>
      [] c = ":" -> <<"%", "3", "A">>
      [] c = "<" -> <<"%", "3", "C">>
      [] c = ">" -> <<"%", "3", "E">>
      [] c = "|" -> <<"%", "7", "C">>
      [] OTHER -> <<c>>

\* urllib.parse.quote_plus
RECURSIVE quote_plus(_)
quote_plus(s) == IF s = <<>> THEN <<>> ELSE QuoteChar(Head(s)) \o quote_plus(Tail(s))

\* repr() of a value inside a list's repr
RECURSIVE PyRepr(_)
PyRepr(v) ==
    CASE v.t = "none" -> "None"
      [] v.t = "int" -> DecStr(v.n)
      [] v.t = "float" -> DecStr(v.n) \o ".0"
      [] v.t = "bool" -> IF v.b THEN "True" ELSE "False"
      [] v.t = "str" -> "'" \o Text(v.s) \o "'"
      [] v.t = "wrap" -> "<pyalex.api._LogicalExpression object>"
      [] v.t = "list" ->
            LET RECURSIVE Elems(_)
                Elems(xs) ==
                    IF xs = <<>> THEN ""
                    ELSE IF Len(xs) = 1 THEN PyRepr(xs[1])
                    ELSE PyRepr(Head(xs)) \o ", " \o Elems(Tail(xs))
            IN "[" \o Elems(v.xs) \o "]"
      [] OTHER -> "{...}"

\* str() of a value, as an f-string formats it; _LogicalExpression.__str__
\* is f"{self.token}{self.value}"
RECURSIVE PyStr(_)
PyStr(v) ==
    CASE v.t = "str" -> Text(v.s)
      [] v.t = "wrap" -> v.tok \o PyStr(v.value)
      [] OTHER -> PyRepr(v)

-----------------------------------------------------------------------------
(* Value Encoder and Query Serializer *)

\* ",".join(parts) and friends
RECURSIVE Join(_, _)
Join(sep, parts) ==
    IF parts = <<>> THEN ""
    ELSE IF Len(parts) = 1 THEN parts[1]
    ELSE Head(parts) \o sep \o Join(sep, Tail(parts))

\* the value _quote_oa_value returns
_quote_oa_value(v) ==
    CASE v.t = "bool" ->
            StrV(IF v.b THEN <<"t", "r", "u", "e">> ELSE <<"f", "a", "l", "s", "e">>)
      [] v.t = "wrap" /\ v.value.t = "str" ->
            [v EXCEPT !.value = StrV(quote_plus(v.value.s))]
      [] v.t = "str" -> StrV(quote_plus(v.s))
      [] OTHER -> v

\* the object v after _quote_oa_value(v) ran: `v.value = quote_plus(v.value)`
\* assigns to the _LogicalExpression object that is stored in the params
QuotedInPlace(v) ==
    IF v.t = "wrap" /\ v.value.t = "str"
    THEN [v EXCEPT !.value = StrV(quote_plus(v.value.s))]
    ELSE v

\* _flatten_kv(d, prefix, logical); prefix "" stands for prefix=None
RECURSIVE _flatten_kv(_, _, _)
_flatten_kv(d, prefix, logical) ==
    IF d.t = "dict"
    THEN LET logical_subd == IF d.or THEN "|" ELSE logical
             t == [i \in 1..Len(d.items) |->
                     _flatten_kv(d.items[i].v,
                                 IF prefix # "" THEN prefix \o "." \o d.items[i].k
                                 ELSE d.items[i].k,
                                 logical_subd)]
         IN Join(",", t)
    ELSE IF d.t = "list"
    THEN prefix \o ":" \o
         Join(logical, [i \in 1..Len(d.xs) |-> PyStr(_quote_oa_value(d.xs[i]))])
    ELSE prefix \o ":" \o PyStr(_quote_oa_value(d))

\* the tree d after _flatten_kv(d) ran: every leaf and every list element
\* went through _quote_oa_value once
RECURSIVE FlattenedInPlace(_)
FlattenedInPlace(d) ==
    IF d.t = "dict"
    THEN [d EXCEPT !.items =
            [i \in 1..Len(d.items) |-> KV(d.items[i].k, FlattenedInPlace(d.items[i].v))]]
    ELSE IF d.t = "list"
    THEN [d EXCEPT !.xs = [i \in 1..Len(d.xs) |-> QuotedInPlace(d.xs[i])]]
    ELSE QuotedInPlace(d)

\* _params_merge(params, add_params): the dict params after the merge
RECURSIVE _params_merge(_, _)
_params_merge(p, add_params) ==
    IF add_params.items = <<>> THEN p
    ELSE LET k == Head(add_params.items).k
             a == Head(add_params.items).v
             rest == [add_params EXCEPT !.items = Tail(@)]
             p1 == IF HasKey(p, k) /\ GetItem(p, k).t = "dict" /\ a.t = "dict"
                   THEN SetItem(p, k, _params_merge(GetItem(p, k), a))
                   ELSE IF HasKey(p, k) /\ GetItem(p, k).t # "list" /\ a.t = "list"
                   THEN SetItem(p, k, ListV(<<GetItem(p, k)>> \o a.xs))
                   ELSE IF HasKey(p, k) /\ GetItem(p, k).t = "list" /\ a.t # "list"
                   THEN SetItem(p, k, ListV(Append(GetItem(p, k).xs, a)))
                   ELSE IF HasKey(p, k)
                   THEN SetItem(p, k, ListV(<<GetItem(p, k), a>>))
                   ELSE SetItem(p, k, a)
         IN _params_merge(p1, rest)

\* _wrap_values_nested_dict(d, func) with func one of not_ / gt_ / lt_
RECURSIVE _wrap_values_nested_dict(_, _)
_wrap_values_nested_dict(d, tok) ==
    [d EXCEPT !.items =
        [i \in 1..Len(d.items) |->
            LET v == d.items[i].v
            IN KV(d.items[i].k,
                  IF v.t = "dict" THEN _wrap_values_nested_dict(v, tok)
                  ELSE IF v.t = "list"
                  THEN ListV([j \in 1..Len(v.xs) |-> _LogicalExpression(tok, v.xs[j])])
                  ELSE _LogicalExpression(tok, v))]]

\* _add_params that updates a stored dict key by key, the value of the
\* later call replacing the stored one
_add_params_last_wins(p, argument, new_params) ==
    IF p.t = "none" THEN DictV(<<KV(argument, new_params)>>)
    ELSE IF p.t = "dict"
    THEN IF HasKey(p, argument) /\ GetItem(p, argument).t = "dict"
         THEN LET d == GetItem(p, argument)
                  kept == [i \in 1..Len(d.items) |->
                             IF HasKey(new_params, d.items[i].k)
                             THEN KV(d.items[i].k, GetItem(new_params, d.items[i].k))
                             ELSE d.items[i]]
                  added == SelectSeq(new_params.items, LAMBDA it : ~HasKey(d, it.k))
              IN SetItem(p, argument, [d EXCEPT !.items = kept \o added])
         ELSE SetItem(p, argument, new_params)
    ELSE p

\* _add_params that assigns the new value instead of merging into a dict
\* that is already stored under the argument
_add_params_overwrite(p, argument, new_params) ==
    IF p.t = "none" THEN DictV(<<KV(argument, new_params)>>)
    ELSE IF p.t = "dict" THEN SetItem(p, argument, new_params)
    ELSE p

\* _add_params that keeps the value a key already has
_add_params_keep(p, argument, new_params) ==
    IF p.t = "none" THEN DictV(<<KV(argument, new_params)>>)
    ELSE IF p.t = "dict"
    THEN IF HasKey(p, argument) /\ GetItem(p, argument).t = "dict"
         THEN SetItem(p, argument, _params_merge(GetItem(p, argument), new_params))
         ELSE IF HasKey(p, argument) THEN p
         ELSE SetItem(p, argument, new_params)
    ELSE p

\* BaseOpenAlex._add_params: self.params after the call.  A builder whose
\* params is a str (or a list) is left as it is.
_add_params(p, argument, new_params) ==
    IF p.t = "none" THEN DictV(<<KV(argument, new_params)>>)
    ELSE IF p.t = "dict"
    THEN IF HasKey(p, argument) /\ GetItem(p, argument).t = "dict"
         THEN SetItem(p, argument, _params_merge(GetItem(p, argument), new_params))
         ELSE SetItem(p, argument, new_params)
    ELSE p

\* one `k=v` piece of BaseOpenAlex._url_query; None-valued keys give no piece
UrlQueryPiece(k, v) ==
    IF v.t = "list"
    THEN k \o "=" \o Join(",", [i \in 1..Len(v.xs) |-> PyStr(_quote_oa_value(v.xs[i]))])
    ELSE IF k \in {"filter", "sort"}
    THEN k \o "=" \o _flatten_kv(v, "", "+")
    ELSE k \o "=" \o PyStr(_quote_oa_value(v))

\* BaseOpenAlex._url_query for dict params ("" when it returns None or "")
_url_query(p) ==
    IF p.t = "dict"
    THEN LET present == SelectSeq(p.items, LAMBDA it : it.v.t # "none")
             l_params == [i \in 1..Len(present) |->
                            UrlQueryPiece(present[i].k, present[i].v)]
         IN Join("&", l_params)
    ELSE ""

\* the builder's resource path: Works -> "works"
base_path == "works"

\* url that puts a str params into the path as it is, without encoding it
url_unencoded(p) ==
    LET path == IF p.t = "str" THEN base_path \o "/" \o Text(p.s) ELSE base_path
        query == IF p.t = "str" THEN "" ELSE _url_query(p)
    IN "https://api.openalex.org/" \o path \o
       (IF query # "" THEN "?" \o query ELSE "")

\* BaseOpenAlex.url
url(p) ==
    LET path == IF p.t = "str"
                THEN base_path \o "/" \o PyStr(_quote_oa_value(p))
                ELSE base_path
        query == IF p.t = "str" THEN "" ELSE _url_query(p)
    IN "https://api.openalex.org/" \o path \o
       (IF query # "" THEN "?" \o query ELSE "")

\* self.params after a read of BaseOpenAlex.url: the serializer has passed
\* every stored value through _quote_oa_value
ParamsAfterUrl(p) ==
    IF p.t = "dict"
    THEN [p EXCEPT !.items =
            [i \in 1..Len(p.items) |->
                LET k == p.items[i].k
                    v == p.items[i].v
                IN KV(k, IF v.t = "none" THEN v
                         ELSE IF v.t = "list"
                         THEN [v EXCEPT !.xs = [j \in 1..Len(v.xs) |-> QuotedInPlace(v.xs[j])]]
                         ELSE IF k \in {"filter", "sort"} THEN FlattenedInPlace(v)
                         ELSE QuotedInPlace(v))]]
    ELSE p

-----------------------------------------------------------------------------
(* bounds and input sets *)

\* chaining calls made on the builder
MaxCalls == 2
\* serializations that re-encoded a stored value
MaxQuoted == 2
\* largest result set the server holds
MaxTotal == 4
\* largest cap given to paginate() besides the default
MaxNMax == 3
\* largest word position in an abstract's inverted index
MaxPos == 2

\* paginate(n_max=10000)
DefaultNMax == 10000
\* the server's page size when no per-page is sent
ServerDefaultPerPage == 25
\* the per_page limits of get() and Paginator.__next__
MinPerPage == 1
MaxPerPage == 200
\* the most ids __getitem__ takes in one list
MaxIds == 100

PagIds == {"p1", "p2"}

Min(a, b) == IF a < b THEN a ELSE b
Max(a, b) == IF a > b THEN a ELSE b

PQ == StrV(<<"p", " ", "q">>)
Scalars == {IntV(1), BoolV(TRUE), PQ}
ListVals == {ListV(<<StrV(<<"x">>), PQ>>)}
NestedVals == {DictV(<<KV("c", PQ)>>)}
FilterKeys == {"a", "b"}

\* keyword arguments with one key
KwOne == {DictV(<<KV(k, v)>>) : k \in FilterKeys, v \in Scalars \cup ListVals \cup NestedVals}
\* keyword arguments with two keys and scalar values
KwTwo == {DictV(<<KV("a", x), KV("b", y)>>) : x, y \in Scalars}
\* keyword arguments of the comparison filters
KwCmp == {DictV(<<KV("a", v)>>) : v \in Scalars}

PerPageInputs ==
    {None, IntV(0), IntV(1), IntV(2), IntV(MaxPerPage), IntV(MaxPerPage + 1),
     StrV(<<"1", "0", "0">>), BoolV(TRUE), BoolV(FALSE), FloatV(2)}

CursorStart == StrV(<<"*">>)
CursorToken(k) == StrV(<<"c">> \o Digits(k))

-----------------------------------------------------------------------------
(* the server: a result set of `total` entities behind the list endpoint *)

\* the pagination parameters a request built from params p carries
\* (_url_query leaves out the None-valued ones)
ReqParams(p) ==
    IF p.t = "dict"
    THEN [cursor |-> DictGet(p, "cursor"), page |-> DictGet(p, "page"),
          perpage |-> DictGet(p, "per-page"), sample |-> DictGet(p, "sample")]
    ELSE [cursor |-> None, page |-> None, perpage |-> None, sample |-> None]

NoReq == [cursor |-> None, page |-> None, perpage |-> None, sample |-> None]

ValidCursor(c) == c = CursorStart \/ \E k \in 0..(MaxTotal + 1) : c = CursorToken(k)

CursorOffset(c) ==
    IF c = CursorStart THEN 0 ELSE CHOOSE k \in 0..(MaxTotal + 1) : c = CursorToken(k)

ErrorResponse ==
    [page |-> None, ok |-> FALSE, kind |-> "error", len |-> 0, next_cursor |-> None,
     count |-> 0]

\* no response received
NoResponse == ErrorResponse

\* the responses the server may give to a request: a page of results with
\* meta.count, meta.page and meta.next_cursor.  In cursor mode next_cursor
\* is a token while results remain; on the last non-empty page the server
\* may answer null at once or hand out a token for a final empty page.
ServerResponses(req, tot) ==
    LET rejected ==
            \/ req.cursor # None /\ req.page # None
            \/ req.cursor # None /\ req.sample # None
            \/ req.cursor # None /\ ~ValidCursor(req.cursor)
            \/ req.perpage # None /\ req.perpage.t # "int"
            \/ req.page # None /\ req.page.t # "int"
            \/ req.sample # None /\ (req.sample.t # "int" \/ req.sample.n < 1)
        eff == IF req.sample # None THEN Min(req.sample.n, tot) ELSE tot
        pp == IF req.perpage = None THEN ServerDefaultPerPage ELSE req.perpage.n
    IN IF rejected THEN {ErrorResponse}
       ELSE IF req.cursor # None
       THEN LET off == CursorOffset(req.cursor)
                len == Max(0, Min(pp, eff - off))
            IN {[page |-> None, ok |-> TRUE, kind |-> "list", len |-> len, next_cursor |-> nc,
                  count |-> eff] :
                  nc \in IF off + len < eff THEN {CursorToken(off + len)}
                         ELSE IF len > 0 THEN {None, CursorToken(off + len)}
                         ELSE {None}}
       ELSE LET pg == IF req.page = None THEN 1 ELSE req.page.n
                len == Max(0, Min(pp, eff - (pg - 1) * pp))
            IN {[page |-> IntV(pg), ok |-> TRUE, kind |-> "list", len |-> len,
                  next_cursor |-> None, count |-> eff]}

\* the answer of the singleton endpoint <collection>/<id> for a known id:
\* one JSON object with an "id", which _get_from_url decodes into one entity
EntityResponse ==
    [page |-> None, ok |-> TRUE, kind |-> "entity", len |-> 1, next_cursor |-> None,
     count |-> 1]

\* the singleton endpoint answers with the entity or, for an unknown id,
\* with 404, which raise_for_status turns into HTTPError
SingletonResponses == {EntityResponse, ErrorResponse}

-----------------------------------------------------------------------------
(* state *)

\* what the last operation did: its name and arguments, the exception it
\* raised, whether it issued a request, the url it rendered, the pagination
\* parameters that request carried and the response it got
Event(op, arg, err, sent, u, req, resp) ==
    [url |-> u, req |-> req, op |-> op, arg |-> arg, err |-> err, sent |-> sent,
     resp |-> resp]

NoPaginator ==
    [n |-> 0, value |-> None, state |-> "absent", method |-> "", per_page |-> None,
     n_max |-> None, _next_value |-> None, steps |-> 0, r |-> NoResponse]

\* BaseOpenAlex.__init__(params=None); no paginator exists yet
InitBuilder ==
    /\ params = None
    /\ hist = <<>>
    /\ quoted = 0
    /\ pag = [p \in PagIds |-> NoPaginator]
    /\ last = Event("init", None, "none", FALSE, "", NoReq, NoResponse)
    /\ total \in 0..MaxTotal

\* a fresh builder; the caller holds no entity yet
Init == InitBuilder /\ work = None

\* a builder queried against an empty collection
InitQuery == Init /\ total = 0

\* reading self.url passes the stored values through _quote_oa_value
CanSerialize(p) == ParamsAfterUrl(p) = p \/ quoted < MaxQuoted
QuotedAfter(p) == IF ParamsAfterUrl(p) = p THEN quoted ELSE quoted + 1

-----------------------------------------------------------------------------
(* Query Builder: chaining calls *)

Chain(op, kw, p) ==
    /\ Len(hist) < MaxCalls
    /\ params' = p
    /\ hist' = Append(hist, [op |-> op, kw |-> kw])
    /\ last' = Event(op, kw, "none", FALSE, "", NoReq, NoResponse)
    /\ UNCHANGED <<quoted, pag, total, work>>

\* BaseOpenAlex.filter(**kwargs)
filter(kw) == Chain("filter", kw, _add_params(params, "filter", kw))

\* BaseOpenAlex.filter_or(**kwargs)
filter_or(kw) == Chain("filter_or", kw, _add_params(params, "filter", or_(kw)))

\* BaseOpenAlex.filter_not(**kwargs)
filter_not(kw) ==
    Chain("filter_not", kw, _add_params(params, "filter", _wrap_values_nested_dict(kw, "!")))

\* BaseOpenAlex.filter_gt(**kwargs)
filter_gt(kw) ==
    Chain("filter_gt", kw, _add_params(params, "filter", _wrap_values_nested_dict(kw, ">")))

\* BaseOpenAlex.filter_lt(**kwargs)
filter_lt(kw) ==
    Chain("filter_lt", kw, _add_params(params, "filter", _wrap_values_nested_dict(kw, "<")))

\* sort that replaces the stored sort mapping by the new keyword arguments
sort_replace(kw) == Chain("sort", kw, _add_params_overwrite(params, "sort", kw))

\* BaseOpenAlex.sort(**kwargs)
sort(kw) == Chain("sort", kw, _add_params(params, "sort", kw))

\* BaseOpenAlex.group_by(group_key)
group_by(group_key) ==
    Chain("group_by", group_key, _add_params(params, "group-by", group_key))

\* BaseOpenAlex.sample(n, seed=None)
sample(n, seed) ==
    Chain("sample", [n |-> n, seed |-> seed],
          _add_params(_add_params(params, "sample", n), "seed", seed))

\* a read of the property BaseOpenAlex.url
ReadUrl ==
    /\ CanSerialize(params)
    /\ params' = ParamsAfterUrl(params)
    /\ quoted' = QuotedAfter(params)
    /\ last' = Event("url", None, "none", FALSE, url(params), NoReq, NoResponse)
    /\ UNCHANGED <<hist, pag, total, work>>

-----------------------------------------------------------------------------
(* get() *)

\* the per_page check with the upper limit excluded
PerPageInvalid_exclusive(per_page) ==
    per_page # None /\
        (~IsInstanceInt(per_page)
           \/ IntValue(per_page) < MinPerPage \/ IntValue(per_page) >= MaxPerPage)

\* the per_page check of get() and of Paginator.__next__
PerPageInvalid(per_page) ==
    per_page # None /\
        (~IsInstanceInt(per_page)
           \/ IntValue(per_page) < MinPerPage \/ IntValue(per_page) > MaxPerPage)

\* the body of BaseOpenAlex.get(page, per_page, cursor) on a builder whose
\* params are p0, run for the operation op that was called with arg
GetOn(p0, op, arg, page, per_page, cursor) ==
    LET p1 == IF p0.t \notin {"str", "list"}
              THEN _add_params(_add_params(_add_params(p0, "per-page", per_page),
                                           "page", page), "cursor", cursor)
              ELSE p0
    IN IF PerPageInvalid(per_page)
       THEN /\ params' = p0
            /\ last' = Event(op, arg, "ValueError", FALSE, "", NoReq, NoResponse)
            /\ UNCHANGED <<quoted, pag, total, work>>
       ELSE /\ CanSerialize(p1)
            /\ params' = ParamsAfterUrl(p1)
            /\ quoted' = QuotedAfter(p1)
            /\ IF p1.t = "str"
               THEN \* the singleton url answers with one entity, not a list,
                    \* and get() asserts that it got a list
                    \E r \in SingletonResponses :
                        last' = Event(op, arg,
                                      IF r.ok THEN "AssertionError" ELSE "HTTPError",
                                      TRUE, url(p1), ReqParams(p1), r)
               ELSE \E r \in ServerResponses(ReqParams(p1), total) :
                        last' = Event(op, arg, IF r.ok THEN "none" ELSE "QueryError",
                                      TRUE, url(p1), ReqParams(p1), r)
            /\ UNCHANGED <<pag, total, work>>

\* BaseOpenAlex.get(page, per_page, cursor)
get(page, per_page, cursor) ==
    /\ GetOn(params, "get", [page |-> page, per_page |-> per_page, cursor |-> cursor],
             page, per_page, cursor)
    /\ UNCHANGED hist

\* BaseOpenAlex.count(): self.get(per_page=1), returning meta["count"]
count ==
    /\ GetOn(params, "count", None, None, IntV(1), None)
    /\ UNCHANGED hist

\* BaseOpenAlex.__getitem__(record_id): a list of ids is looked up through
\* filter_or(openalex_id=record_id).get(per_page=len(record_id)), a str is
\* stored as self.params and fetched from the singleton url
__getitem__(record_id) ==
    IF record_id.t = "list"
    THEN IF Len(record_id.xs) > MaxIds
         THEN /\ last' = Event("getitem", record_id, "ValueError", FALSE, "", NoReq,
                               NoResponse)
              /\ UNCHANGED <<params, hist, quoted, pag, total, work>>
         ELSE /\ Len(hist) < MaxCalls
              /\ hist' = Append(hist, [op |-> "getitem", kw |-> record_id])
              /\ GetOn(_add_params(params, "filter",
                                   or_(DictV(<<KV("openalex_id", record_id)>>))),
                       "getitem", record_id, None, IntV(Len(record_id.xs)), None)
    ELSE IF record_id.t = "str"
    THEN /\ params' = record_id
         /\ \E r \in SingletonResponses :
               last' = Event("getitem", record_id, IF r.ok THEN "none" ELSE "HTTPError",
                             TRUE, url(record_id), NoReq, r)
         /\ UNCHANGED <<hist, quoted, pag, total, work>>
    ELSE /\ last' = Event("getitem", record_id, "ValueError", FALSE, "", NoReq, NoResponse)
         /\ UNCHANGED <<params, hist, quoted, pag, total, work>>

-----------------------------------------------------------------------------
(* Work entities and the derived abstract *)

\* a Python str kept as whole text (the words of an abstract)
TextV(s) == [t |-> "text", text |-> s]

\* [(w, p) for w, pos in inv_index.items() for p in pos]
RECURSIVE l_inv(_)
l_inv(items) ==
    IF items = <<>> THEN <<>>
    ELSE [j \in 1..Len(Head(items).v.xs) |->
            [w |-> Head(items).k, p |-> Head(items).v.xs[j].n]]
         \o l_inv(Tail(items))

\* sorted(l, key=lambda x: x[1]): Python's sort is stable, so an element
\* goes behind the elements whose position is not greater
RECURSIVE sorted(_)
sorted(l) ==
    IF l = <<>> THEN <<>>
    ELSE LET init == sorted(SubSeq(l, 1, Len(l) - 1))
             x == l[Len(l)]
             keep == Cardinality({i \in 1..Len(init) : init[i].p <= x.p})
         IN SubSeq(init, 1, keep) \o <<x>> \o SubSeq(init, keep + 1, Len(init))

\* invert_abstract that joins the words in the order the index stores them
invert_abstract_unsorted(inv_index) ==
    IF inv_index # None
    THEN LET l == l_inv(inv_index.items)
         IN TextV(Join(" ", [i \in 1..Len(l) |-> l[i].w]))
    ELSE None

\* invert_abstract(inv_index); the function returns None when the index
\* is None
invert_abstract(inv_index) ==
    IF inv_index # None
    THEN LET l == sorted(l_inv(inv_index.items))
         IN TextV(Join(" ", [i \in 1..Len(l) |-> l[i].w]))
    ELSE None

\* Work.__getitem__(key) on the entity the caller holds: "abstract" is
\* derived from the stored inverted index, any other key is looked up in
\* the dict
Work__getitem__(key) ==
    /\ work # None
    /\ IF key = "abstract"
       THEN IF HasKey(work, "abstract_inverted_index")
            THEN last' = Event("work_getitem",
                               [key |-> key,
                                value |-> invert_abstract(
                                              GetItem(work, "abstract_inverted_index"))],
                               "none", FALSE, "", NoReq, NoResponse)
            ELSE last' = Event("work_getitem", [key |-> key, value |-> None],
                               "KeyError", FALSE, "", NoReq, NoResponse)
       ELSE IF HasKey(work, key)
       THEN last' = Event("work_getitem", [key |-> key, value |-> GetItem(work, key)],
                          "none", FALSE, "", NoReq, NoResponse)
       ELSE last' = Event("work_getitem", [key |-> key, value |-> None],
                          "KeyError", FALSE, "", NoReq, NoResponse)
    /\ UNCHANGED <<params, hist, quoted, pag, total, work>>

\* `key in work`: dict.__contains__, which Work does not override
Work__contains__(key) ==
    /\ work # None
    /\ last' = Event("work_contains", [key |-> key, value |-> BoolV(HasKey(work, key))],
                     "none", FALSE, "", NoReq, NoResponse)
    /\ UNCHANGED <<params, hist, quoted, pag, total, work>>

-----------------------------------------------------------------------------
(* _get_from_url: from the HTTP response to a result or an exception *)

\* the "error" field of a response body: missing, null, an object, or a
\* string, of which only the phrases the code searches for matter
ErrorAbsent == [t |-> "absent"]
ErrorStr(phrases) == [t |-> "str", phrases |-> phrases]
ErrorFields ==
    {ErrorAbsent, None, DictV(<<>>)}
        \cup {ErrorStr(ph) : ph \in SUBSET {"query parameters", "API key"}}

\* HTTP responses session.get may return: a status code, whether
\* res.json() can parse the body and, for a JSON body, which of the keys
\* the decoder looks at it has at the top level, and its "error" and
\* "message" fields
StatusCodes == {200, 304, 400, 401, 403, 404, 429, 500}
HttpResponses ==
    {[status_code |-> st, json |-> FALSE, keys |-> {}, error |-> ErrorAbsent,
      message |-> "absent"] : st \in StatusCodes}
    \cup [status_code : StatusCodes, json : {TRUE},
          keys : {{"results", "meta"}, {"id"}, {}},
          error : ErrorFields, message : {"absent", "m1", "m2"}]

\* successful responses with every combination of the top-level keys the
\* decoder looks at
BodyKeys == {"group_by", "results", "id", "meta"}
DecodeResponses ==
    {[status_code |-> 200, json |-> TRUE, keys |-> ks, error |-> ErrorAbsent,
      message |-> "absent"] : ks \in SUBSET BodyKeys}

\* what _get_from_url does with a response: the exception it raises (err),
\* the message a QueryError carries (msg) and the kind of result returned
Outcome(err, msg, kind) == [err |-> err, msg |-> msg, kind |-> kind]

\* the decoding that looks for "results" before the group-by parameter
Decode_results_first(p, res) ==
    IF "results" \in res.keys
    THEN IF "meta" \in res.keys THEN Outcome("none", "", "list")
         ELSE Outcome("KeyError", "", "none")
    ELSE IF Truthy(p) /\ p.t = "dict" /\ HasKey(p, "group-by")
    THEN IF {"group_by", "meta"} \subseteq res.keys THEN Outcome("none", "", "groups")
         ELSE Outcome("KeyError", "", "none")
    ELSE IF "id" \in res.keys THEN Outcome("none", "", "entity")
    ELSE Outcome("ValueError", "", "none")

\* the decoding of the JSON body at the end of _get_from_url: the result
\* shape is picked from the builder's params p and the body's keys (a str
\* params holds an id, which has no "group-by" in it)
Decode(p, res) ==
    IF Truthy(p) /\ p.t = "dict" /\ HasKey(p, "group-by")
    THEN \* OpenAlexResponseList(res_json["group_by"], res_json["meta"], ...)
         IF {"group_by", "meta"} \subseteq res.keys THEN Outcome("none", "", "groups")
         ELSE Outcome("KeyError", "", "none")
    ELSE IF "results" \in res.keys
    THEN \* OpenAlexResponseList(res_json["results"], res_json["meta"], ...)
         IF "meta" \in res.keys THEN Outcome("none", "", "list")
         ELSE Outcome("KeyError", "", "none")
    ELSE IF "id" \in res.keys THEN Outcome("none", "", "entity")
    ELSE Outcome("ValueError", "", "none")

\* the outcome of BaseOpenAlex._get_from_url for the response res, on a
\* builder p
_get_from_url_outcome(p, res) ==
    LET json_fails == ~res.json
        e == res.error
    IN IF res.status_code = 400 /\ json_fails
       THEN Outcome("JSONDecodeError", "", "none")
       ELSE IF res.status_code = 400 /\ e.t = "absent"
       THEN Outcome("KeyError", "", "none")
       ELSE IF res.status_code = 400 /\ e.t = "str" /\ "query parameters" \in e.phrases
       THEN IF res.message = "absent" THEN Outcome("KeyError", "", "none")
            ELSE Outcome("QueryError", res.message, "none")
       ELSE IF res.status_code = 401 /\ json_fails
       THEN Outcome("JSONDecodeError", "", "none")
       ELSE IF res.status_code = 401 /\ e.t = "absent"
       THEN Outcome("KeyError", "", "none")
       ELSE IF res.status_code = 401 /\ e.t = "none"
       THEN Outcome("TypeError", "", "none")
       ELSE IF res.status_code = 401 /\ e.t = "str" /\ "API key" \in e.phrases
       THEN Outcome("QueryError", "error. Did you configure a valid API key?", "none")
       ELSE IF res.status_code \in 400..599
       THEN Outcome("HTTPError", "", "none")
       ELSE IF json_fails
       THEN Outcome("JSONDecodeError", "", "none")
       ELSE Decode(p, res)

\* BaseOpenAlex._get_from_url(self.url) when session.get returns res
_get_from_url(res) ==
    /\ CanSerialize(params)
    /\ params' = ParamsAfterUrl(params)
    /\ quoted' = QuotedAfter(params)
    /\ last' = Event("_get_from_url",
                     [res |-> res, out |-> _get_from_url_outcome(params, res)],
                     _get_from_url_outcome(params, res).err, TRUE, url(params),
                     ReqParams(params), NoResponse)
    /\ UNCHANGED <<hist, pag, total, work>>

-----------------------------------------------------------------------------
(* Paginator *)

\* BaseOpenAlex.paginate(method, page, per_page, cursor, n_max) creating
\* the Paginator object p (Paginator.__init__)
paginate(p, method, page, per_page, cursor, n_max) ==
    /\ pag[p].state = "absent"
    /\ LET arg == [pid |-> p, method |-> method, page |-> page, per_page |-> per_page,
                   cursor |-> cursor, n_max |-> n_max]
           rejected ==
               \/ method = "cursor" /\ params.t = "dict" /\ Truthy(DictGet(params, "sample"))
               \/ method \notin {"cursor", "page"}
           value == IF method = "cursor" THEN cursor ELSE page
       IN /\ pag' = IF rejected THEN pag
                    ELSE [pag EXCEPT ![p] =
                            [n |-> 0, value |-> value, state |-> "active", method |-> method,
                             per_page |-> per_page, n_max |-> n_max,
                             _next_value |-> value, steps |-> 0, r |-> NoResponse]]
          /\ last' = Event("paginate", arg, IF rejected THEN "ValueError" ELSE "none",
                           FALSE, "", NoReq, NoResponse)
    /\ UNCHANGED <<params, hist, quoted, total, work>>

\* _is_max that takes a missing cap for a reached cap
_is_max_no_cap(self) == ~Truthy(self.n_max) \/ self.n >= self.n_max.n

\* _is_max that reports a reached cap only until the paginator has stopped
_is_max_once(self) ==
    Truthy(self.n_max) /\ self.n >= self.n_max.n /\ self.state # "stopped"

\* Paginator._is_max
_is_max(self) == Truthy(self.n_max) /\ self.n >= self.n_max.n

\* the next value that never takes up the response's next_cursor
NextValue_stale(self, r) ==
    IF self.method = "cursor" THEN self._next_value
    ELSE IF r.len > 0 THEN IntV(r.page.n + 1)
    ELSE None

\* the next value that skips a page after a non-empty page
NextValue_skip(self, r) ==
    IF self.method = "cursor" THEN r.next_cursor
    ELSE IF r.len > 0 THEN IntV(r.page.n + 2)
    ELSE None

\* self._next_value after a page r came back
NextValue(self, r) ==
    IF self.method = "cursor" THEN r.next_cursor
    ELSE IF r.len > 0 THEN IntV(r.page.n + 1)
    ELSE None

\* Paginator.__next__ on the Paginator object p
__next__(p) ==
    /\ pag[p].state # "absent"
    /\ LET self == pag[p]
           arg == [pid |-> p, was |-> self.state]
           p1 == _add_params(params, self.method, self._next_value)
           p2 == IF self.per_page # None THEN _add_params(p1, "per-page", self.per_page)
                 ELSE p1
       IN IF self._next_value = None \/ _is_max(self)
          THEN /\ pag' = [pag EXCEPT ![p].state = "stopped"]
               /\ last' = Event("next", arg, "StopIteration", FALSE, "", NoReq, NoResponse)
               /\ UNCHANGED <<params, quoted>>
          ELSE IF self.method \notin {"cursor", "page"}
          THEN /\ pag' = [pag EXCEPT ![p].state = "raised"]
               /\ last' = Event("next", arg, "ValueError", FALSE, "", NoReq, NoResponse)
               /\ UNCHANGED <<params, quoted>>
          ELSE IF PerPageInvalid(self.per_page)
          THEN /\ params' = p1
               /\ pag' = [pag EXCEPT ![p].state = "raised"]
               /\ last' = Event("next", arg, "ValueError", FALSE, "", NoReq, NoResponse)
               /\ UNCHANGED quoted
          ELSE /\ CanSerialize(p2)
               /\ params' = ParamsAfterUrl(p2)
               /\ quoted' = QuotedAfter(p2)
               /\ IF p2.t = "str"
                  THEN \* the singleton url answers with one entity, not a list
                       /\ pag' = [pag EXCEPT ![p].state = "raised"]
                       /\ last' = Event("next", arg, "AssertionError", TRUE, url(p2),
                                        ReqParams(p2), NoResponse)
                  ELSE \E r \in ServerResponses(ReqParams(p2), total) :
                         /\ pag' = IF r.ok
                                   THEN [pag EXCEPT ![p] =
                                           [self EXCEPT !.state = "active",
                                                        !._next_value = NextValue(self, r),
                                                        !.n = self.n + r.len,
                                                        !.steps = self.steps + 1,
                                                        !.r = r]]
                                   ELSE [pag EXCEPT ![p].state = "raised"]
                         /\ last' = Event("next", arg, IF r.ok THEN "none" ELSE "QueryError",
                                          TRUE, url(p2), ReqParams(p2), r)
    /\ UNCHANGED <<hist, total, work>>

-----------------------------------------------------------------------------
(* specifications *)

SampleInputs == {IntV(0), IntV(2)}
NMaxInputs == {None, IntV(DefaultNMax)} \cup {IntV(n) : n \in 0..MaxNMax}
PaginatePerPage == {None, IntV(1), IntV(2), IntV(MaxPerPage + 1), StrV(<<"1", "0", "0">>)}

\* filter() calls and url reads on a fresh builder
NextFilter ==
    \/ \E kw \in KwOne \cup KwTwo : filter(kw)
    \/ ReadUrl

SpecFilter == InitQuery /\ [][NextFilter]_vars

\* all filter variants and url reads on a fresh builder
NextUrl ==
    \/ \E kw \in KwOne \cup KwTwo : filter(kw)
    \/ \E kw \in KwOne : filter_or(kw)
    \/ \E kw \in KwOne : filter_not(kw)
    \/ \E kw \in KwCmp : filter_gt(kw)
    \/ \E kw \in KwCmp : filter_lt(kw)
    \/ ReadUrl

SpecUrl == InitQuery /\ [][NextUrl]_vars

\* get() with every kind of per_page on a builder with or without sampling
NextGet ==
    \/ sample(IntV(2), None)
    \/ \E page \in {None, IntV(2)}, per_page \in PerPageInputs,
          cursor \in {None, CursorStart} : get(page, per_page, cursor)

SpecGet == Init /\ [][NextGet]_vars

\* one pagination of a builder: sample() calls, paginate(), then the steps
NextPage ==
    \/ \E n \in SampleInputs : sample(n, None)
    \/ \E method \in {"cursor", "page", "offset"}, page \in {IntV(1), IntV(2)},
          per_page \in PaginatePerPage, cursor \in {CursorStart, CursorToken(1)},
          n_max \in NMaxInputs :
            paginate("p1", method, page, per_page, cursor, n_max)
    \/ __next__("p1")

SpecPage == Init /\ [][NextPage]_vars

\* one pagination of an unsampled builder, driven to its end: the caller's
\* for-loop keeps calling next() until the iterator stops or raises
NextIterate ==
    \/ \E method \in {"cursor", "page"}, page \in {IntV(1), IntV(2)},
          per_page \in {None, IntV(1), IntV(2), StrV(<<"1", "0", "0">>)},
          cursor \in {CursorStart, CursorToken(1)},
          n_max \in {None, IntV(MaxNMax)} :
            paginate("p1", method, page, per_page, cursor, n_max)
    \/ __next__("p1")

SpecIterate == Init /\ [][NextIterate]_vars /\ WF_vars(__next__("p1"))

\* a list nested in a mapping, as in institutions={"country_code": [...]}
NestedListVals == {DictV(<<KV("c", ListV(<<StrV(<<"x">>), PQ>>))>>)}

\* keyword arguments with two keys, as filter_or takes them for an OR group
KwOr ==
    {DictV(<<KV("a", x), KV("b", y)>>) :
        x \in Scalars \cup ListVals \cup NestedVals \cup NestedListVals,
        y \in Scalars \cup ListVals}

\* filter_or() with two keys, filter() and url reads on a fresh builder
NextOr ==
    \/ \E kw \in KwOr : filter_or(kw)
    \/ \E kw \in KwOne : filter(kw)
    \/ ReadUrl

SpecOr == InitQuery /\ [][NextOr]_vars

W1 == StrV(<<"W", "1">>)
W2 == StrV(<<"W", "2">>)

\* record ids given to __getitem__: known-looking ids, an id that needs
\* encoding, lists of 0, 1, 2 and MaxIds + 1 ids, and a value of another type
IdInputs ==
    {W1, StrV(<<"W", " ", "1">>), ListV(<<>>), ListV(<<W1>>), ListV(<<W1, W2>>),
     ListV([i \in 1..(MaxIds + 1) |-> W1]), IntV(5)}

\* lookups by id on a builder that accumulated filters, sampling and the
\* pagination parameters of earlier get() calls
NextItem ==
    \/ \E kw \in KwCmp : filter(kw)
    \/ sample(IntV(2), None)
    \/ \E page \in {None, IntV(2)} : get(page, None, None)
    \/ \E record_id \in IdInputs : __getitem__(record_id)
    \/ ReadUrl

SpecItem == Init /\ [][NextItem]_vars

\* responses of every status and body shape arriving for a request of
\* a fresh builder
NextRemap == \E res \in HttpResponses : _get_from_url(res)

SpecRemap == Init /\ [][NextRemap]_vars

\* a builder that is chained, fetched with get(), counted and paginated,
\* with reads of its url in between
NextFetch ==
    \/ filter(DictV(<<KV("a", IntV(1))>>))
    \/ \E v \in {None, IntV(2)} : get(v, v, None)
    \/ count
    \/ \E method \in {"cursor", "page"} :
          paginate("p1", method, IntV(1), IntV(2), CursorStart, None)
    \/ __next__("p1")
    \/ ReadUrl

SpecFetch == Init /\ [][NextFetch]_vars

\* the elements of a set of numbers in ascending order
RECURSIVE AscSeq(_)
AscSeq(S) ==
    IF S = {} THEN <<>>
    ELSE LET m == CHOOSE x \in S : \A y \in S : x <= y
         IN <<m>> \o AscSeq(S \ {m})

Words == {"the", "cat"}

\* the inverted index of the text that has word f[p] at position p ("-"
\* for no word), its keys stored in the given order
IndexOf(f, order) ==
    LET entry(w) == KV(w, ListV([j \in 1..Cardinality({p \in DOMAIN f : f[p] = w}) |->
                                    IntV(AscSeq({p \in DOMAIN f : f[p] = w})[j])]))
    IN DictV(SelectSeq([i \in 1..Len(order) |-> entry(order[i])],
                       LAMBDA it : it.v.xs # <<>>))

\* abstract_inverted_index values the API sends: null, or an index
IndexInputs ==
    {None} \cup
    {IndexOf(f, order) : f \in [0..MaxPos -> Words \cup {"-"}],
                         order \in {<<"the", "cat">>, <<"cat", "the">>}}

\* Work entities: with an inverted index, and one fetched without that field
WorkInputs ==
    {DictV(<<KV("id", W1), KV("abstract_inverted_index", idx)>>) : idx \in IndexInputs}
        \cup {DictV(<<KV("id", W1)>>)}

\* the caller holds a Work entity
InitWork == InitBuilder /\ total = 0 /\ work \in WorkInputs

\* reads of a Work entity
NextAbstract ==
    \/ \E key \in {"abstract", "abstract_inverted_index", "id"} : Work__getitem__(key)
    \/ \E key \in {"abstract", "abstract_inverted_index"} : Work__contains__(key)

SpecAbstract == InitWork /\ [][NextAbstract]_vars

\* sort directions
SortDirs == {StrV(<<"a", "s", "c">>), StrV(<<"d", "e", "s", "c">>)}
KwSort == {DictV(<<KV(k, d)>>) : k \in FilterKeys, d \in SortDirs}

\* filter() with scalar and mapping values, sort() and url reads on a
\* fresh builder
NextSort ==
    \/ \E kw \in {DictV(<<KV(k, v)>>) : k \in FilterKeys, v \in Scalars \cup NestedVals} :
          filter(kw)
    \/ \E kw \in KwSort : sort(kw)
    \/ ReadUrl

SpecSort == InitQuery /\ [][NextSort]_vars

\* successful responses of every shape arriving for a request of a
\* builder with or without a group-by parameter
NextDecode ==
    \/ group_by(StrV(<<"t">>))
    \/ filter(DictV(<<KV("a", IntV(1))>>))
    \/ \E res \in DecodeResponses : _get_from_url(res)

SpecDecode == Init /\ [][NextDecode]_vars

\* the arguments of the get() calls that share a builder with a paginator:
\* no argument, a page, a cursor, and a per_page that get() rejects
SharedGetArgs ==
    {[cursor |-> None, page |-> None, per_page |-> None],
     [cursor |-> None, page |-> IntV(2), per_page |-> None],
     [cursor |-> CursorStart, page |-> None, per_page |-> None],
     [cursor |-> None, page |-> None, per_page |-> IntV(MaxPerPage + 1)]}

\* one builder shared by sample(), get(), count() and a paginator, in every
\* order
NextShared ==
    \/ sample(IntV(2), None)
    \/ \E a \in SharedGetArgs : get(a.page, a.per_page, a.cursor)
    \/ count
    \/ \E method \in {"cursor", "page"}, per_page \in {None, IntV(MaxPerPage + 1)} :
          paginate("p1", method, IntV(1), per_page, CursorStart, None)
    \/ __next__("p1")

SpecShared == Init /\ [][NextShared]_vars

\* two cursor paginations of one builder, stepped in any interleaving
NextTwo ==
    \/ \E p \in PagIds, per_page \in {None, IntV(1)}, n_max \in {None, IntV(MaxNMax)} :
          paginate(p, "cursor", IntV(1), per_page, CursorStart, n_max)
    \/ \E p \in PagIds : __next__(p)

SpecTwo == Init /\ [][NextTwo]_vars

-----------------------------------------------------------------------------
(* claims *)

IsScalar(v) == v.t \in {"int", "bool", "str"}

\* the builder received exactly filter(a=x) and then filter(b=y), with
\* distinct keys a, b and scalar x, y
SplitFilterCalls ==
    /\ Len(hist) = 2
    /\ \A i \in 1..2 : /\ hist[i].op = "filter"
                       /\ Len(hist[i].kw.items) = 1
                       /\ IsScalar(hist[i].kw.items[1].v)
    /\ hist[1].kw.items[1].k # hist[2].kw.items[1].k

\* C1: a fresh builder after filter(a=x).filter(b=y) renders the same url
\* as a fresh builder after the single call filter(a=x, b=y); for a=1 and
\* b=True that url is .../works?filter=a:1,b:true
C1_FilterSplitSameUrl ==
    SplitFilterCalls =>
        /\ url(params) =
             url(_add_params(None, "filter",
                             DictV(hist[1].kw.items \o hist[2].kw.items)))
        /\ (hist[1].kw = DictV(<<KV("a", IntV(1))>>)
              /\ hist[2].kw = DictV(<<KV("b", BoolV(TRUE))>>))
             => url(params) = "https://api.openalex.org/works?filter=a:1,b:true"

C1_Witness ==
    /\ SplitFilterCalls
    /\ hist[1].kw = DictV(<<KV("a", PQ)>>)
    /\ hist[2].kw = DictV(<<KV("b", BoolV(TRUE))>>)
    /\ last.op = "url"
    /\ last.url = "https://api.openalex.org/works?filter=a:p+q,b:true"

\* the text the serializer emits for the top-level filter key k
FilterPiece(k) ==
    LET f == GetItem(params, "filter")
    IN _flatten_kv(GetItem(f, k), k, IF f.or THEN "|" ELSE "+")

\* C2: whatever filter calls were made before, a list value passed to
\* filter() is serialized with its elements joined by "+", and a list value
\* passed to filter_or() with its elements joined by "|"
C2_ListJoinToken ==
    (/\ last.op \in {"filter", "filter_or"}
     /\ Len(last.arg.items) = 1
     /\ last.arg.items[1].v.t = "list"
     /\ GetItem(GetItem(params, "filter"), last.arg.items[1].k).t = "list")
    => LET k == last.arg.items[1].k
           xs == GetItem(GetItem(params, "filter"), k).xs
           tok == IF last.op = "filter" THEN "+" ELSE "|"
       IN FilterPiece(k) =
            k \o ":" \o Join(tok, [i \in 1..Len(xs) |-> PyStr(_quote_oa_value(xs[i]))])

\* C3: reading url is read-only: a read leaves the parameter set unchanged
\* and two consecutive reads return the same string
C3_UrlReadOnly ==
    [][last'.op = "url" =>
         /\ params' = params
         /\ last.op = "url" => last'.url = last.url]_vars

\* C4: get(per_page=v) raises ValueError and issues no request when v is
\* not None and is not an integer or lies outside 1..200; for an integer in
\* 1..200 and for None it raises no ValueError
C4_GetPerPageValidation ==
    last.op = "get" =>
        LET v == last.arg.per_page
            bad == v # None /\ (v.t \notin {"int", "bool"} \/ IntValue(v) \notin 1..200)
        IN /\ bad => (last.err = "ValueError" /\ ~last.sent)
           /\ ~bad => last.err # "ValueError"

C4_Witness ==
    /\ last.op = "get"
    /\ last.arg.per_page = IntV(201)
    /\ last.err = "ValueError"
    /\ ~last.sent

\* the step taken is a call of next() on paginator p
StepOf(p) == last'.op = "next" /\ last'.arg.pid = p

\* C5: in cursor mode the first request carries the start cursor, every
\* later request carries the next_cursor of the paginator's preceding
\* response, and after a response with next_cursor = null the next step
\* issues no request and stops the iteration
C5_CursorChain ==
    [][\A p \in PagIds :
         (StepOf(p) /\ pag[p].method = "cursor") =>
            /\ last'.sent =>
                 last'.req.cursor = (IF pag[p].steps = 0 THEN pag[p].value
                                     ELSE pag[p].r.next_cursor)
            /\ (pag[p].steps > 0 /\ pag[p].r.next_cursor = None) =>
                 (~last'.sent /\ last'.err = "StopIteration")]_vars

C5_Witness ==
    /\ pag["p1"].method = "cursor"
    /\ pag["p1"].steps = 2
    /\ pag["p1"].r.next_cursor = None
    /\ last.op = "next"
    /\ last.err = "StopIteration"


\* paginator p was created with the default start value of its method
DefaultStart(p) ==
    \/ pag[p].method = "cursor" /\ pag[p].value = CursorStart
    \/ pag[p].method = "page" /\ pag[p].value = IntV(1)

\* C6: cursor-mode pagination with n_max=None eventually stops, and when a
\* pagination without cap, started at the default start value over the
\* unsampled result set, has stopped, the lengths of its pages add up to
\* the server's total, in cursor mode and in page mode alike
C6_PaginationTotals ==
    /\ \A p \in PagIds :
         (pag[p].state = "active" /\ pag[p].method = "cursor" /\ pag[p].n_max = None)
            ~> (pag[p].state \in {"stopped", "raised"})
    /\ [](\A p \in PagIds :
            (/\ pag[p].state = "stopped"
             /\ pag[p].n_max = None
             /\ DefaultStart(p)
             /\ ReqParams(params).sample = None)
            => pag[p].n = total)

C6_Witness ==
    /\ pag["p1"].state = "stopped"
    /\ pag["p1"].method = "cursor"
    /\ pag["p1"].n_max = None
    /\ pag["p1"].value = CursorStart
    /\ pag["p1"].per_page = IntV(2)
    /\ pag["p1"].steps >= 2
    /\ pag["p1"].n = total
    /\ total = MaxTotal

\* C7: with a cap n_max >= 1, a per_page in 1..200 and a result set of at
\* least n_max items, the items of all yielded pages never exceed n_max and
\* add up to n_max when the paginator has stopped
C7_CapIsExact ==
    \A p \in PagIds :
        (/\ pag[p].state \in {"active", "stopped"}
         /\ pag[p].n_max # None /\ pag[p].n_max.n >= 1
         /\ pag[p].per_page # None /\ ~PerPageInvalid(pag[p].per_page)
         /\ DefaultStart(p)
         /\ ReqParams(params).sample = None
         /\ total >= pag[p].n_max.n)
        => /\ pag[p].n <= pag[p].n_max.n
           /\ pag[p].state = "stopped" => pag[p].n = pag[p].n_max.n

\* C8: for every non-null cap n_max, 0 included, and in both modes, once
\* the running item count has reached n_max the next step issues no request
\* and stops the iteration
C8_StopAtCap ==
    [][\A p \in PagIds :
         (/\ StepOf(p)
          /\ pag[p].n_max # None
          /\ pag[p].n >= pag[p].n_max.n)
         => (~last'.sent /\ last'.err = "StopIteration")]_vars

\* C9: in page mode the first request carries the start page, the request
\* after a non-empty page carries that response's meta.page + 1, and after
\* an empty page the next token is null and the next step issues no request
\* and stops the iteration
C9_PageChain ==
    /\ [][\A p \in PagIds :
            (StepOf(p) /\ pag[p].method = "page") =>
               /\ last'.sent =>
                    last'.req.page = (IF pag[p].steps = 0 THEN pag[p].value
                                      ELSE IntV(pag[p].r.page.n + 1))
               /\ (pag[p].steps > 0 /\ pag[p].r.len = 0) =>
                    (~last'.sent /\ last'.err = "StopIteration")]_vars
    /\ [](\A p \in PagIds :
            (pag[p].method = "page" /\ pag[p].steps > 0 /\ pag[p].r.len = 0)
               => pag[p]._next_value = None)

C9_Witness ==
    /\ pag["p1"].method = "page"
    /\ pag["p1"].value = IntV(1)
    /\ pag["p1"].steps = 3
    /\ pag["p1"].r.len = 0
    /\ pag["p1"].r.page = IntV(3)
    /\ pag["p1"]._next_value = None
    /\ last.op = "next"
    /\ last.err = "StopIteration"

\* C10: paginate(method="cursor") raises a validation error and creates no
\* paginator whenever sample(n) has set a sample parameter on the builder;
\* paginate(method="page") on such a builder is accepted
C10_CursorRejectedWithSample ==
    (/\ last.op = "paginate"
     /\ params.t = "dict"
     /\ DictGet(params, "sample") # None)
    => /\ last.arg.method = "cursor" =>
            (last.err = "ValueError" /\ ~last.sent
               /\ pag[last.arg.pid].state = "absent")
       /\ last.arg.method = "page" =>
            (last.err = "none" /\ pag[last.arg.pid].state = "active")


\* C11: every validation error is raised by the very call that introduced
\* the bad value, before any network request: paginate() given an
\* out-of-range or non-integer per_page raises ValueError itself, and no
\* later step of a paginator raises a validation error
C11_ValidationFailsFast ==
    /\ (last.op = "paginate" /\ PerPageInvalid(last.arg.per_page))
          => last.err = "ValueError"
    /\ last.op = "next" => last.err # "ValueError"


\* the builder received exactly one call, filter_or with two or more keys
OneFilterOrCall ==
    /\ Len(hist) = 1
    /\ hist[1].op = "filter_or"
    /\ Len(hist[1].kw.items) >= 2

\* a value under an OR group: list elements joined by "|"
OrValue(v) ==
    IF v.t = "list"
    THEN Join("|", [i \in 1..Len(v.xs) |-> PyStr(_quote_oa_value(v.xs[i]))])
    ELSE PyStr(_quote_oa_value(v))

\* the key:value token of key k with value v under an OR group; a mapping
\* {c: w} below the key gives k.c:w
OrToken(k, v) ==
    IF v.t = "dict"
    THEN k \o "." \o v.items[1].k \o ":" \o OrValue(v.items[1].v)
    ELSE k \o ":" \o OrValue(v)

\* the tokens of the keyword arguments of the one filter_or call
OrTokens ==
    [i \in 1..Len(hist[1].kw.items) |->
        OrToken(hist[1].kw.items[i].k, hist[1].kw.items[i].v)]

\* C12 as stated: a filter built by filter_or with two or more keys has its
\* sibling key:value tokens joined by "|" instead of ","
C12_OrSiblingsJoinedByBar ==
    (OneFilterOrCall /\ last.op = "url")
        => last.url = "https://api.openalex.org/works?filter=" \o Join("|", OrTokens)

\* C12 amended: a filter built by filter_or with two or more keys has its
\* sibling key:value tokens joined by ",", as those of filter() are; the OR
\* group changes the token joining the elements of a list value to "|",
\* and a list in a mapping nested below the group inherits "|"
C12_OrSiblingsJoinedByComma ==
    (OneFilterOrCall /\ last.op = "url")
        => last.url = "https://api.openalex.org/works?filter=" \o Join(",", OrTokens)

C12_Witness ==
    /\ OneFilterOrCall
    /\ hist[1].kw = DictV(<<KV("a", DictV(<<KV("c", ListV(<<StrV(<<"x">>), PQ>>))>>)),
                            KV("b", IntV(1))>>)
    /\ last.op = "url"
    /\ last.url = "https://api.openalex.org/works?filter=a.c:x|p+q,b:1"


\* the builder received exactly one filter call, with the one keyword k=v
OneFilterCall(ops) ==
    /\ Len(hist) = 1
    /\ hist[1].op \in ops
    /\ Len(hist[1].kw.items) = 1

\* the operator token a filter method puts before its values
TokenOf(op) ==
    CASE op = "filter_not" -> "!"
      [] op = "filter_gt" -> ">"
      [] op = "filter_lt" -> "<"
      [] OTHER -> ""

\* C13: a boolean in a filter is rendered as lowercase true / false, also
\* when filter_not / filter_gt / filter_lt wrapped it: the wrapped value
\* renders as the operator token followed by the encoded inner value, so
\* filter_not(a=True) renders a:!true
C13_BooleanLowercase ==
    (/\ OneFilterCall({"filter", "filter_not", "filter_gt", "filter_lt"})
     /\ hist[1].kw.items[1].v.t = "bool"
     /\ last.op = "url")
    => last.url = "https://api.openalex.org/works?filter=" \o hist[1].kw.items[1].k
                    \o ":" \o TokenOf(hist[1].op)
                    \o (IF hist[1].kw.items[1].v.b THEN "true" ELSE "false")

\* the builder received filter_not(x=[v1..vn]), x at the top level or
\* nested in a mapping, and after it at most filter() calls on other keys
FilterNotListCalls ==
    /\ Len(hist) >= 1
    /\ hist[1].op = "filter_not"
    /\ Len(hist[1].kw.items) = 1
    /\ LET v == hist[1].kw.items[1].v
       IN \/ v.t = "list"
          \/ v.t = "dict" /\ Len(v.items) = 1 /\ v.items[1].v.t = "list"
    /\ \A i \in 2..Len(hist) :
          /\ hist[i].op = "filter"
          /\ \A j \in 1..Len(hist[i].kw.items) :
                hist[i].kw.items[j].k # hist[1].kw.items[1].k

\* x:!v1+!v2+...+!vn for the keyword given to filter_not
NotListToken ==
    LET k == hist[1].kw.items[1].k
        v == hist[1].kw.items[1].v
        path == IF v.t = "dict" THEN k \o "." \o v.items[1].k ELSE k
        xs == IF v.t = "dict" THEN v.items[1].v.xs ELSE v.xs
    IN path \o ":" \o
       Join("+", [i \in 1..Len(xs) |-> "!" \o PyStr(_quote_oa_value(xs[i]))])

\* C14: filter_not(x=[v1..vn]) serializes as x:!v1+!v2+...+!vn, each
\* element negated on its own, also when x is nested in a mapping and when
\* filter() calls on other keys follow
C14_FilterNotList ==
    (FilterNotListCalls /\ last.op = "url")
    => last.url = "https://api.openalex.org/works?filter=" \o NotListToken
                    \o Join("", [i \in 1..(Len(hist) - 1) |->
                                    "," \o _flatten_kv(hist[i + 1].kw, "", "+")])


\* C15: indexing a builder, in whatever state, by a list of at most 100
\* ids issues one list request whose filter is openalex_id:id1|id2|...|idn
\* and whose per-page is the number of ids; a list of more than 100 ids
\* raises ValueError before any request
C15_BatchLookup ==
    (last.op = "getitem" /\ last.arg.t = "list") =>
        IF Len(last.arg.xs) > MaxIds
        THEN last.err = "ValueError" /\ ~last.sent
        ELSE /\ last.sent
             /\ last.req.perpage = IntV(Len(last.arg.xs))
             /\ params.t = "dict"
             /\ HasKey(params, "filter")
             /\ FilterPiece("openalex_id") =
                  "openalex_id:" \o
                  Join("|", [i \in 1..Len(last.arg.xs) |->
                                PyStr(_quote_oa_value(last.arg.xs[i]))])

\* C16: builder[id] with a str id requests the url whose path is
\* works/<encoded id> and whose query string is empty, whatever parameters
\* the builder had accumulated, and a successful fetch returns one entity,
\* not a list; the id "W 1" gives .../works/W+1
C16_SingletonFetch ==
    (last.op = "getitem" /\ last.arg.t = "str") =>
        /\ last.sent
        /\ last.url = "https://api.openalex.org/works/" \o Text(quote_plus(last.arg.s))
        /\ last.arg = StrV(<<"W", " ", "1">>)
              => last.url = "https://api.openalex.org/works/W+1"
        /\ last.err \in {"none", "HTTPError"}
        /\ last.err = "none" => last.resp.kind = "entity"

C16_Witness ==
    /\ last.op = "getitem"
    /\ last.arg = StrV(<<"W", " ", "1">>)
    /\ Len(hist) = 2
    /\ hist[1].op = "filter"
    /\ hist[2].op = "sample"
    /\ last.url = "https://api.openalex.org/works/W+1"
    /\ last.err = "none"
    /\ last.resp.kind = "entity"


\* C17: every 4xx response whose JSON "error" contains "query parameters"
\* raises QueryError carrying the API's message verbatim; a 4xx response
\* about the API key raises QueryError; every other response that is not
\* 2xx raises HTTPError and never QueryError; and no response that is not
\* 2xx is decoded into a result
C17_ErrorRemapping ==
    last.op = "_get_from_url" =>
        LET res == last.arg.res
            out == last.arg.out
            is4xx == res.status_code \in 400..499
            about(phrase) == res.error.t = "str" /\ phrase \in res.error.phrases
        IN /\ (is4xx /\ about("query parameters") /\ res.message # "absent")
                => (out.err = "QueryError" /\ out.msg = res.message)
           /\ (is4xx /\ about("API key")) => out.err = "QueryError"
           /\ (res.status_code \notin 200..299
                 /\ ~(is4xx /\ (about("query parameters") \/ about("API key"))))
                => out.err = "HTTPError"
           /\ res.status_code \notin 200..299 => out.kind = "none"


\* C18: once a paginator has stopped, because its next value is None or
\* its cap is reached, every later step on it raises StopIteration again
\* without issuing a request, and it stays stopped
C18_StoppedStaysStopped ==
    [][\A p \in PagIds :
        (pag[p].state = "stopped" /\ StepOf(p))
        => /\ last'.err = "StopIteration"
           /\ ~last'.sent
           /\ pag'[p] = pag[p]]_vars

C18_Witness ==
    /\ last.op = "next"
    /\ last.arg.was = "stopped"
    /\ last.err = "StopIteration"
    /\ pag["p1"].steps >= 2
    /\ pag["p1"].n_max # None
    /\ pag["p1"].n >= pag["p1"].n_max.n
    /\ pag["p1"]._next_value # None


\* C19: the url of a builder never includes the pagination parameters
\* per-page, page and cursor: after any sequence of chaining calls, get(),
\* count() and paginator steps, a read of url renders none of the three
C19_UrlWithoutPagination ==
    last.op = "url" =>
        /\ ReqParams(params).perpage = None
        /\ ReqParams(params).page = None
        /\ ReqParams(params).cursor = None


\* the positions an inverted index holds
PositionsOf(idx) ==
    UNION {{idx.items[i].v.xs[j].n : j \in 1..Len(idx.items[i].v.xs)} :
              i \in 1..Len(idx.items)}

\* the word an inverted index holds at position p
WordAt(idx, p) ==
    CHOOSE w \in Words :
        \E i \in 1..Len(idx.items) :
            /\ idx.items[i].k = w
            /\ \E j \in 1..Len(idx.items[i].v.xs) : idx.items[i].v.xs[j].n = p

\* the words of the index by ascending position, joined by single spaces
WordsByPosition(idx) ==
    LET asc == AscSeq(PositionsOf(idx))
    IN Join(" ", [i \in 1..Len(asc) |-> WordAt(idx, asc[i])])

\* the last step read the entity with work[key]
ReadOf(key) == last'.op = "work_getitem" /\ last'.arg.key = key

\* C20: for a Work w, w["abstract"] is the words of the stored inverted
\* index by ascending position joined by single spaces ({the:[0], cat:[1]}
\* gives "the cat", a word with k positions occurs k times) and is None
\* when the stored index is None; "abstract" is never a stored key, and
\* "abstract_inverted_index" stays present and unmodified
C20_DerivedAbstract ==
    [][(last'.op \in {"work_getitem", "work_contains"}
          /\ HasKey(work, "abstract_inverted_index"))
       => LET idx == GetItem(work, "abstract_inverted_index")
          IN /\ work' = work
             /\ ~HasKey(work', "abstract")
             /\ (last'.op = "work_contains" /\ last'.arg.key = "abstract")
                   => last'.arg.value = BoolV(FALSE)
             /\ ReadOf("abstract_inverted_index") => last'.arg.value = idx
             /\ (ReadOf("abstract") /\ idx = None) => last'.arg.value = None
             /\ (ReadOf("abstract") /\ idx # None)
                   => last'.arg.value = TextV(WordsByPosition(idx))
             /\ (ReadOf("abstract")
                   /\ idx = DictV(<<KV("the", ListV(<<IntV(0)>>)),
                                    KV("cat", ListV(<<IntV(1)>>))>>))
                   => last'.arg.value = TextV("the cat")]_vars

C20_Witness ==
    /\ work # None
    /\ HasKey(work, "abstract_inverted_index")
    /\ GetItem(work, "abstract_inverted_index") =
         DictV(<<KV("cat", ListV(<<IntV(1)>>)),
                 KV("the", ListV(<<IntV(0), IntV(2)>>))>>)
    /\ last.op = "work_getitem"
    /\ last.arg.key = "abstract"
    /\ last.arg.value = TextV("the cat the")


\* the filter mapping a builder with params p holds (empty when none)
FilterOf(p) ==
    IF p.t = "dict" /\ HasKey(p, "filter") /\ GetItem(p, "filter").t = "dict"
    THEN GetItem(p, "filter")
    ELSE DictV(<<>>)

\* the value stored after merging new into the existing value old, by the
\* four rules with "scalar" taken literally: a mapping meeting a list falls
\* under the last rule
RECURSIVE MergedScalarRules(_, _)
MergedScalarRules(old, new) ==
    IF old.t = "dict" /\ new.t = "dict"
    THEN [old EXCEPT !.items =
            [i \in 1..Len(old.items) |->
                IF HasKey(new, old.items[i].k)
                THEN KV(old.items[i].k,
                        MergedScalarRules(old.items[i].v, GetItem(new, old.items[i].k)))
                ELSE old.items[i]]
            \o SelectSeq(new.items, LAMBDA it : ~HasKey(old, it.k))]
    ELSE IF IsScalar(old) /\ new.t = "list" THEN ListV(<<old>> \o new.xs)
    ELSE IF old.t = "list" /\ IsScalar(new) THEN ListV(Append(old.xs, new))
    ELSE ListV(<<old, new>>)

\* the same with the two list rules reading "not a list" for "scalar"
RECURSIVE MergedNonListRules(_, _)
MergedNonListRules(old, new) ==
    IF old.t = "dict" /\ new.t = "dict"
    THEN [old EXCEPT !.items =
            [i \in 1..Len(old.items) |->
                IF HasKey(new, old.items[i].k)
                THEN KV(old.items[i].k,
                        MergedNonListRules(old.items[i].v, GetItem(new, old.items[i].k)))
                ELSE old.items[i]]
            \o SelectSeq(new.items, LAMBDA it : ~HasKey(old, it.k))]
    ELSE IF old.t # "list" /\ new.t = "list" THEN ListV(<<old>> \o new.xs)
    ELSE IF old.t = "list" /\ new.t # "list" THEN ListV(Append(old.xs, new))
    ELSE ListV(<<old, new>>)

\* C21 as stated: a filter() call merges each of its values into the
\* stored filter by exactly four rules: mapping + mapping merges key by key,
\* existing scalar + new list gives [existing] followed by the elements,
\* existing list + new scalar appends, any other pair gives [existing, new];
\* an absent key is set, and keys the call does not name are unchanged
C21_MergeRulesScalar ==
    [][last'.op = "filter" =>
        \A k \in FilterKeys :
            IF HasKey(last'.arg, k)
            THEN GetItem(FilterOf(params'), k) =
                   IF HasKey(FilterOf(params), k)
                   THEN MergedScalarRules(GetItem(FilterOf(params), k), GetItem(last'.arg, k))
                   ELSE GetItem(last'.arg, k)
            ELSE HasKey(FilterOf(params), k)
                   => (/\ HasKey(FilterOf(params'), k)
                       /\ GetItem(FilterOf(params'), k) = GetItem(FilterOf(params), k))]_vars

\* C21 amended: the two list rules apply to every value that is not a list,
\* mappings included: existing non-list + new list gives [existing]
\* followed by the elements, existing list + new non-list appends it
C21_MergeRulesNonList ==
    [][last'.op = "filter" =>
        \A k \in FilterKeys :
            IF HasKey(last'.arg, k)
            THEN GetItem(FilterOf(params'), k) =
                   IF HasKey(FilterOf(params), k)
                   THEN MergedNonListRules(GetItem(FilterOf(params), k), GetItem(last'.arg, k))
                   ELSE GetItem(last'.arg, k)
            ELSE HasKey(FilterOf(params), k)
                   => (/\ HasKey(FilterOf(params'), k)
                       /\ GetItem(FilterOf(params'), k) = GetItem(FilterOf(params), k))]_vars

\* filter(a={"c": "p q"}) and then filter(a=["x", "p q"]) left the list
\* [{"c": "p q"}, "x", "p q"] under a
C21_Witness ==
    /\ Len(hist) = 2
    /\ hist[1].kw = DictV(<<KV("a", DictV(<<KV("c", PQ)>>))>>)
    /\ hist[2].kw = DictV(<<KV("a", ListV(<<StrV(<<"x">>), PQ>>))>>)
    /\ last.op = "filter"
    /\ GetItem(FilterOf(params), "a") =
         ListV(<<DictV(<<KV("c", PQ)>>), StrV(<<"x">>), PQ>>)


\* the builder received the same method, op, twice, each time with one
\* keyword of the same key
SameKeyTwice(op) ==
    /\ Len(hist) = 2
    /\ \A i \in 1..2 : hist[i].op = op /\ Len(hist[i].kw.items) = 1
    /\ hist[1].kw.items[1].k = hist[2].kw.items[1].k

\* C22 as stated: filter and sort are merged by last-write-wins per key:
\* after sort (or filter with scalar values) was called twice with the same
\* key, the url is that of a builder that received the later call only
C22_LastWriteWins ==
    (/\ last.op = "url"
     /\ SameKeyTwice("sort") \/ SameKeyTwice("filter")
     /\ IsScalar(hist[1].kw.items[1].v)
     /\ IsScalar(hist[2].kw.items[1].v))
    => last.url = url(_add_params(None, hist[2].op, hist[2].kw))

\* C22 amended: after sort (or filter with scalar values) was called twice
\* with the same key k, the url keeps both values in call order, joined by
\* "+": k:v1+v2; filter values that are mappings merge recursively, so two
\* calls with {c: v1} and {c: v2} under k render k.c:v1+v2
C22_BothValuesKept ==
    (last.op = "url" /\ (SameKeyTwice("sort") \/ SameKeyTwice("filter")))
    => LET k == hist[1].kw.items[1].k
           v1 == hist[1].kw.items[1].v
           v2 == hist[2].kw.items[1].v
           enc(v) == PyStr(_quote_oa_value(v))
           head == "https://api.openalex.org/works?" \o hist[1].op \o "="
       IN /\ (IsScalar(v1) /\ IsScalar(v2))
                => last.url = head \o k \o ":" \o enc(v1) \o "+" \o enc(v2)
          /\ (v1.t = "dict" /\ v2.t = "dict")
                => last.url = head \o k \o "." \o v1.items[1].k \o ":"
                                \o enc(v1.items[1].v) \o "+" \o enc(v2.items[1].v)

C22_Witness ==
    /\ SameKeyTwice("sort")
    /\ hist[1].kw = DictV(<<KV("a", StrV(<<"a", "s", "c">>))>>)
    /\ hist[2].kw = DictV(<<KV("a", StrV(<<"d", "e", "s", "c">>))>>)
    /\ last.op = "url"
    /\ last.url = "https://api.openalex.org/works?sort=a:asc+desc"


\* C23: the decoder picks the result shape in a fixed priority: with a
\* group-by parameter in the builder's params the body's group_by list is
\* returned with the metadata; otherwise a body with a "results" key gives
\* a list with the metadata; otherwise a body with an "id" key gives one
\* entity; otherwise ValueError is raised and nothing is returned
C23_DecodePriority ==
    (last.op = "_get_from_url" /\ last.arg.res.status_code = 200 /\ last.arg.res.json)
    => LET ks == last.arg.res.keys
           out == last.arg.out
           grouped == params.t = "dict" /\ HasKey(params, "group-by")
       IN /\ (grouped /\ {"group_by", "meta"} \subseteq ks)
                => (out.err = "none" /\ out.kind = "groups")
          /\ (~grouped /\ {"results", "meta"} \subseteq ks)
                => (out.err = "none" /\ out.kind = "list")
          /\ (~grouped /\ "results" \notin ks /\ "id" \in ks)
                => (out.err = "none" /\ out.kind = "entity")
          /\ (~grouped /\ "results" \notin ks /\ "id" \notin ks)
                => (out.err = "ValueError" /\ out.kind = "none")

C23_Witness ==
    /\ last.op = "_get_from_url"
    /\ params.t = "dict"
    /\ HasKey(params, "group-by")
    /\ last.arg.res.keys = BodyKeys
    /\ last.arg.out.kind = "groups"
    /\ last.url = "https://api.openalex.org/works?filter=a:1&group-by=t"


\* C24: a paginator created with per_page=None never sends a per-page
\* parameter in any of its requests, whatever get(), count() or other
\* paginators ran on the same builder before
C24_NoPerPageWhenNone ==
    \A p \in PagIds :
        (/\ last.op = "next"
         /\ last.arg.pid = p
         /\ last.sent
         /\ pag[p].per_page = None)
        => last.req.perpage = None


\* C26: every request of a paginator step carries the pagination parameter
\* of the paginator's own method only: a cursor-mode step sends no page and
\* a page-mode step sends no cursor, whatever get(page=..) / get(cursor=..)
\* calls ran on the same builder before
C26_OwnMethodOnly ==
    \A p \in PagIds :
        (last.op = "next" /\ last.arg.pid = p /\ last.sent)
        => /\ pag[p].method = "cursor" => last.req.page = None
           /\ pag[p].method = "page" => last.req.cursor = None

\* C27: no request issued through get() or through a paginator step carries
\* both a sample and a cursor parameter, for every order of sample(),
\* paginate(), get(cursor=..) and steps on a builder
C27_NoSampleWithCursor ==
    (last.op \in {"get", "next"} /\ last.sent)
        => ~(last.req.sample # None /\ last.req.cursor # None)

\* C29: a validation error raised by get() or by a paginator step leaves
\* the builder's parameter set exactly as it was before the failing call
C29_FailedCallKeepsParams ==
    [][(last'.op \in {"get", "next"} /\ last'.err = "ValueError")
          => params' = params]_vars


\* C25: a chaining call is never silently ignored: in every reachable builder
\* state, also after a singleton fetch builder[id], the builder that has just
\* taken filter(k=v) or sample(n) holds a parameter mapping with that key set,
\* which is what makes the key show in the next url
ChainKey(op) == IF op = "sample" THEN "sample" ELSE "filter"

C25_ChainingNeverIgnored ==
    last.op \in {"filter", "sample"}
        => /\ params.t = "dict"
           /\ HasKey(params, ChainKey(last.op))
           /\ GetItem(params, ChainKey(last.op)) # None


\* the lists stored in a filter value, at any depth
RECURSIVE ListsIn(_)
ListsIn(v) ==
    IF v.t = "list"
    THEN {v} \cup UNION {ListsIn(v.xs[i]) : i \in 1..Len(v.xs)}
    ELSE IF v.t = "dict"
    THEN UNION {ListsIn(v.items[i].v) : i \in 1..Len(v.items)}
    ELSE IF v.t = "wrap" THEN ListsIn(v.value)
    ELSE {}

\* C28: after any sequence of filter calls whose values are scalars, lists of
\* scalars or nested mappings of these, every list stored in the filter tree
\* is a flat list of scalars: no list holds a list or a mapping
C28_FilterListsFlat ==
    \A l \in ListsIn(FilterOf(params)) :
        \A i \in 1..Len(l.xs) : l.xs[i].t \notin {"list", "dict"}


\* the cursor a paginator has to send next: its start value before its first
\* page, afterwards the next_cursor of the last page it received itself
OwnCursor(p) == IF pag[p].steps = 0 THEN pag[p].value ELSE pag[p].r.next_cursor

\* C30: two cursor-mode paginators of one builder, stepped in any
\* interleaving, each follow their own cursor chain: a request of a paginator
\* carries the cursor this paginator last received (or its start value), the
\* page it gets is added to its own item count only, and the other paginator
\* is left as it was
C30_OwnCursorChain ==
    [][\A p \in PagIds :
          (last'.op = "next" /\ last'.arg.pid = p /\ last'.sent)
             => /\ last'.req.cursor = OwnCursor(p)
                /\ pag'[p].n = pag[p].n + last'.resp.len
                /\ \A q \in PagIds \ {p} : pag'[q] = pag[q]]_vars

\* p1 continues from the token it received although p2 has meanwhile sent
\* its own start value through the same builder
C30_Witness ==
    /\ last.op = "next" /\ last.arg.pid = "p1" /\ last.sent
    /\ last.req.cursor = CursorToken(1)
    /\ pag["p1"].steps = 2 /\ pag["p1"].n = 2
    /\ pag["p2"].steps = 1 /\ pag["p2"].n = 1
    /\ pag["p2"]._next_value = CursorToken(1)

====
